---- MODULE Spec2Model ----
(***************************************************************************)
(* Model of the RedisCluster claim controllers (pkg/controller/cache/      *)
(* claim.go) and of the UserPoolClient conversions (pkg/controller/        *)
(* cognitoidentityprovider/userpoolclient/zz_conversions.go).              *)
(*                                                                         *)
(* Encoding.  A Go pointer is a sequence of length at most one: Nil is the *)
(* nil pointer, Ptr(v) points to v.  A Go string that the code inspects    *)
(* (the engine versions) is a sequence of one-character strings, so the    *)
(* empty string is <<>> and strings.HasPrefix is computed on characters.   *)
(* An error is the sequence of its messages, outermost wrap first; NoErr   *)
(* is the nil error.                                                       *)
(***************************************************************************)
EXTENDS Integers, Sequences, FiniteSets, TLC

VARIABLES
    rv,       \* Version Resolver: the last call of resolveAWSClassInstanceValues
    cm,       \* the resource claim (RedisCluster)
    cs,       \* the resource class template (ReplicationGroupClass)
    store,    \* persisted managed resources, in creation order
    work,     \* the managed resource object the Binder's reconcile is configuring
    pc,       \* position of the Binder's reconcile
    err,      \* error of the last configurator / persistence step
    created,  \* number of managed resources created for the claim
    runs,     \* completed runs of the configurator chain: input, output, success
    cr,       \* the UserPoolClient record: Spec.ForProvider and Status.AtProvider
    resp,     \* the provider's describe response, Nil before there is one
    out,      \* the last conversion called and what it returned
    rt,       \* resp answers the create request built from the current cr
    reads,    \* the last two describe reads: the record read and its request
    nf        \* the last call of IsNotFound: the error and the result

vars == <<rv, cm, cs, store, work, pc, err, created, runs, cr, resp, out, rt,
          reads, nf>>

convVars == <<cr, resp, out, rt>>

bindVars == <<cm, cs, store, work, pc, err, created, runs>>

(***************************************************************************)
(* Pointers, strings, errors                                               *)
(***************************************************************************)
Nil == <<>>

Ptr(v) == <<v>>

EmptyString == <<>>

\* aws.StringValue: the pointed-to string, or "" for a nil pointer.
StringValue(p) == IF p = Nil THEN EmptyString ELSE p[1]

\* strings.HasPrefix
HasPrefix(s, prefix) ==
    /\ Len(prefix) <= Len(s)
    /\ \A i \in 1..Len(prefix) : s[i] = prefix[i]

NoErr == <<>>

\* errors.Errorf: a new error carrying one message.
Errorf(msg) == <<msg>>

\* errors.Wrap: nil stays nil, otherwise the context is put in front.
Wrap(e, msg) == IF e = NoErr THEN NoErr ELSE <<msg>> \o e

\* errors.Cause: the innermost message.
Cause(e) == e[Len(e)]

(***************************************************************************)
(* Supported-Version Table (apis/cache/v1beta1)                            *)
(***************************************************************************)
\* The sentinel: the zero PatchVersion, which is also what a Go map yields
\* for a key it does not contain.
UnsupportedVersion == EmptyString

LatestSupportedPatchVersion ==
    (<<"6", ".", "2">> :> <<"6", ".", "2", ".", "6">>) @@
    (<<"2", ".", "6">> :> <<"2", ".", "6", ".", "2">>)

\* v1beta1.LatestSupportedPatchVersion[minor]: Go map indexing.
TableLookup(minorVersion) ==
    IF minorVersion \in DOMAIN LatestSupportedPatchVersion
    THEN LatestSupportedPatchVersion[minorVersion]
    ELSE EmptyString

(***************************************************************************)
(* Version Resolver                                                        *)
(***************************************************************************)
ErrUnsupported == "minor version is not currently supported"

ErrConflict == "class version is not a patch of claim version"

ErrResolveClaim == "cannot resolve class claim values"

\* Mutant: the lookup is returned without the test for the sentinel.
latestNoSentinelCheck(minorVersion) ==
    [val |-> Ptr(TableLookup(minorVersion)), err |-> NoErr]

latestSupportedPatchVersion(minorVersion) ==
    LET p == TableLookup(minorVersion)
    IN  IF p = UnsupportedVersion
        THEN [val |-> Nil, err |-> Errorf(ErrUnsupported)]
        ELSE [val |-> Ptr(p), err |-> NoErr]

\* Mutant: the prefix test forgets the "." after the claim's minor version.
resolveNoDot(specVersion, rcVersion) ==
    LET r ==
          IF StringValue(specVersion) = EmptyString /\ rcVersion = EmptyString
          THEN [EngineVersion |-> specVersion, err |-> NoErr]
          ELSE IF StringValue(specVersion) = EmptyString /\ rcVersion # EmptyString
          THEN LET l == latestSupportedPatchVersion(rcVersion)
               IN  [EngineVersion |-> l.val, err |-> l.err]
          ELSE IF StringValue(specVersion) # EmptyString /\ rcVersion = EmptyString
          THEN [EngineVersion |-> specVersion, err |-> NoErr]
          ELSE IF ~HasPrefix(StringValue(specVersion), rcVersion)
          THEN [EngineVersion |-> specVersion, err |-> Errorf(ErrConflict)]
          ELSE [EngineVersion |-> specVersion, err |-> NoErr]
    IN  [EngineVersion |-> r.EngineVersion, err |-> Wrap(r.err, ErrResolveClaim)]

\* Mutant: the test that the class version is a patch of the claim version
\* is missing.
resolveNoConflictCheck(specVersion, rcVersion) ==
    LET r ==
          IF StringValue(specVersion) = EmptyString /\ rcVersion = EmptyString
          THEN [EngineVersion |-> specVersion, err |-> NoErr]
          ELSE IF StringValue(specVersion) = EmptyString /\ rcVersion # EmptyString
          THEN LET l == latestSupportedPatchVersion(rcVersion)
               IN  [EngineVersion |-> l.val, err |-> l.err]
          ELSE [EngineVersion |-> specVersion, err |-> NoErr]
    IN  [EngineVersion |-> r.EngineVersion, err |-> Wrap(r.err, ErrResolveClaim)]

\* resolveAWSClassInstanceValues(spec, rc): specVersion is spec.EngineVersion
\* (a *string), rcVersion is rc.Spec.EngineVersion (a string).  The result is
\* spec.EngineVersion after the call and the error returned.
resolveAWSClassInstanceValues(specVersion, rcVersion) ==
    LET r ==
          IF StringValue(specVersion) = EmptyString /\ rcVersion = EmptyString
          THEN [EngineVersion |-> specVersion, err |-> NoErr]
          ELSE IF StringValue(specVersion) = EmptyString /\ rcVersion # EmptyString
          THEN LET l == latestSupportedPatchVersion(rcVersion)
               IN  [EngineVersion |-> l.val, err |-> l.err]
          ELSE IF StringValue(specVersion) # EmptyString /\ rcVersion = EmptyString
          THEN [EngineVersion |-> specVersion, err |-> NoErr]
          ELSE IF ~HasPrefix(StringValue(specVersion), rcVersion \o <<".">>)
          THEN [EngineVersion |-> specVersion, err |-> Errorf(ErrConflict)]
          ELSE [EngineVersion |-> specVersion, err |-> NoErr]
    IN  [EngineVersion |-> r.EngineVersion, err |-> Wrap(r.err, ErrResolveClaim)]

(***************************************************************************)
(* Claim, class template, managed resource                                 *)
(***************************************************************************)
RedisClusterKind == "RedisCluster"

ReplicationGroupClassKind == "ReplicationGroupClass"

ReplicationGroupKind == "ReplicationGroup"

OtherKind == "Other"

ReclaimRetain == "Retain"

ReclaimDelete == "Delete"

ClaimUID == "uid-1"

ClaimNamespace == "ns"

ClaimName == "redis"

SecretNamespace == "crossplane-system"

\* The zero value of v1beta1.ReplicationGroupSpec.
ZeroSpec ==
    [ReclaimPolicy |-> "",
     ForProvider |-> [EngineVersion |-> Nil, CacheNodeType |-> ""],
     WriteConnectionSecretToReference |-> Nil]

\* A managed resource object that has just been constructed.
NewManaged == [kind |-> ReplicationGroupKind, Spec |-> ZeroSpec, GenerateName |-> ""]

\* An object of a kind the configurator does not expect.
OtherClass == [kind |-> OtherKind]

(***************************************************************************)
(* Trigger predicates of the three controllers                             *)
(***************************************************************************)
HasClassSelector(obj) == obj.ClassSelector

HasNoClassSelector(obj) == ~obj.ClassSelector

HasNoClassReference(obj) == obj.ClassRef = ""

HasNoManagedResourceReference(obj) == obj.ResourceRef = Nil

HasClassReferenceKind(obj, k) == obj.ClassRef = k

HasManagedResourceReferenceKind(obj, k) ==
    obj.ResourceRef # Nil /\ obj.ResourceRef[1].kind = k

IsManagedKind(obj, k) == obj.kind = k

\* Mutant: the scheduler's filter does not look at the resource reference.
SchedulerIgnoresResourceRef(obj) ==
    /\ HasClassSelector(obj)
    /\ HasNoClassReference(obj)

SchedulerPredicate(obj) ==
    /\ HasClassSelector(obj)
    /\ HasNoClassReference(obj)
    /\ HasNoManagedResourceReference(obj)

DefaulterPredicate(obj) ==
    /\ HasNoClassSelector(obj)
    /\ HasNoClassReference(obj)
    /\ HasNoManagedResourceReference(obj)

BinderPredicate(obj) ==
    \/ HasClassReferenceKind(obj, ReplicationGroupClassKind)
    \/ HasManagedResourceReferenceKind(obj, ReplicationGroupKind)
    \/ IsManagedKind(obj, ReplicationGroupKind)

(***************************************************************************)
(* Configurator chain                                                      *)
(***************************************************************************)
ErrClaimKind == "expected resource claim to be RedisCluster"

ErrClassKind == "expected resource class to be ReplicationGroupClass"

ErrManagedKind == "expected managed resource to be ReplicationGroup"

ErrResolveAWS == "cannot resolve AWS class instance values"

\* The spec ConfigureReplicationGroup builds before it resolves the version.
InterimSpec(rgc) ==
    [ReclaimPolicy |-> ReclaimRetain,
     ForProvider |-> rgc.SpecTemplate.ForProvider,
     WriteConnectionSecretToReference |-> Nil]

\* The spec ConfigureReplicationGroup assigns to the managed resource.
FinalSpec(rc, rgc, version) ==
    [ReclaimPolicy |-> rgc.SpecTemplate.ReclaimPolicy,
     ForProvider |-> [rgc.SpecTemplate.ForProvider EXCEPT !.EngineVersion = version],
     WriteConnectionSecretToReference |->
        Ptr([Namespace |-> rgc.SpecTemplate.WriteConnectionSecretsToNamespace,
             Name |-> rc.UID])]

\* Mutant: the interim spec is assigned to the managed resource before the
\* version is resolved.
ConfigureWritesEarly(rc, rgc, rg) ==
    IF rc.kind # RedisClusterKind
    THEN [err |-> Errorf(ErrClaimKind), mg |-> rg]
    ELSE IF rgc.kind # ReplicationGroupClassKind
    THEN [err |-> Errorf(ErrClassKind), mg |-> rg]
    ELSE IF rg.kind # ReplicationGroupKind
    THEN [err |-> Errorf(ErrManagedKind), mg |-> rg]
    ELSE LET spec == InterimSpec(rgc)
             r == resolveAWSClassInstanceValues(spec.ForProvider.EngineVersion,
                                                rc.EngineVersion)
         IN  IF r.err # NoErr
             THEN [err |-> Wrap(r.err, ErrResolveAWS),
                   mg |-> [rg EXCEPT !.Spec = spec]]
             ELSE [err |-> NoErr,
                   mg |-> [rg EXCEPT !.Spec = FinalSpec(rc, rgc, r.EngineVersion)]]

\* Mutant: a connection-secret reference is only set when the managed
\* resource has none yet, and the spec is then replaced as a whole.
ConfigureKeepsSecretOnce(rc, rgc, rg) ==
    IF rc.kind # RedisClusterKind
    THEN [err |-> Errorf(ErrClaimKind), mg |-> rg]
    ELSE IF rgc.kind # ReplicationGroupClassKind
    THEN [err |-> Errorf(ErrClassKind), mg |-> rg]
    ELSE IF rg.kind # ReplicationGroupKind
    THEN [err |-> Errorf(ErrManagedKind), mg |-> rg]
    ELSE LET spec == InterimSpec(rgc)
             r == resolveAWSClassInstanceValues(spec.ForProvider.EngineVersion,
                                                rc.EngineVersion)
             final == FinalSpec(rc, rgc, r.EngineVersion)
         IN  IF r.err # NoErr
             THEN [err |-> Wrap(r.err, ErrResolveAWS), mg |-> rg]
             ELSE [err |-> NoErr,
                   mg |-> [rg EXCEPT !.Spec =
                      IF rg.Spec.WriteConnectionSecretToReference = Nil
                      THEN final
                      ELSE [final EXCEPT !.WriteConnectionSecretToReference = Nil]]]

\* Mutant: the interim reclaim policy is left in the spec that is assigned to
\* the managed resource.
ConfigureLeavesInterim(rc, rgc, rg) ==
    IF rc.kind # RedisClusterKind
    THEN [err |-> Errorf(ErrClaimKind), mg |-> rg]
    ELSE IF rgc.kind # ReplicationGroupClassKind
    THEN [err |-> Errorf(ErrClassKind), mg |-> rg]
    ELSE IF rg.kind # ReplicationGroupKind
    THEN [err |-> Errorf(ErrManagedKind), mg |-> rg]
    ELSE LET spec == InterimSpec(rgc)
             r == resolveAWSClassInstanceValues(spec.ForProvider.EngineVersion,
                                                rc.EngineVersion)
             final == FinalSpec(rc, rgc, r.EngineVersion)
         IN  IF r.err # NoErr
             THEN [err |-> Wrap(r.err, ErrResolveAWS), mg |-> rg]
             ELSE [err |-> NoErr,
                   mg |-> [rg EXCEPT !.Spec =
                      [final EXCEPT !.ReclaimPolicy = spec.ReclaimPolicy]]]

\* ConfigureReplicationGroup(ctx, cm, cs, mg): the error returned and the
\* managed resource after the call.
ConfigureReplicationGroup(rc, rgc, rg) ==
    IF rc.kind # RedisClusterKind
    THEN [err |-> Errorf(ErrClaimKind), mg |-> rg]
    ELSE IF rgc.kind # ReplicationGroupClassKind
    THEN [err |-> Errorf(ErrClassKind), mg |-> rg]
    ELSE IF rg.kind # ReplicationGroupKind
    THEN [err |-> Errorf(ErrManagedKind), mg |-> rg]
    ELSE LET spec == InterimSpec(rgc)
             r == resolveAWSClassInstanceValues(spec.ForProvider.EngineVersion,
                                                rc.EngineVersion)
         IN  IF r.err # NoErr
             THEN [err |-> Wrap(r.err, ErrResolveAWS), mg |-> rg]
             ELSE [err |-> NoErr,
                   mg |-> [rg EXCEPT !.Spec = FinalSpec(rc, rgc, r.EngineVersion)]]

\* Mutant: the spec aliases the class template, so the resolved version is
\* written into the template.
ConfigureResolvesInTemplate(rc, rgc, rg) ==
    LET r == ConfigureReplicationGroup(rc, rgc, rg)
    IN  IF r.err = NoErr
        THEN [cm |-> rc,
              cs |-> [rgc EXCEPT !.SpecTemplate.ForProvider.EngineVersion =
                                    r.mg.Spec.ForProvider.EngineVersion]]
        ELSE [cm |-> rc, cs |-> rgc]

\* The claim and the class after ConfigureReplicationGroup(ctx, cm, cs, mg).
\* rc and rgc are only read: the template's ForProvider is copied by value
\* into the local spec, resolveAWSClassInstanceValues replaces the copy's
\* EngineVersion pointer, and the only object assigned to is rg.
ConfigureLeaves(rc, rgc, rg) == [cm |-> rc, cs |-> rgc]

\* claimbinding.ConfigureReclaimPolicy: the class template's declared
\* reclaim policy replaces the one in the managed resource.
ConfigureReclaimPolicy(rc, rgc, rg) ==
    [err |-> NoErr,
     mg |-> [rg EXCEPT !.Spec.ReclaimPolicy = rgc.SpecTemplate.ReclaimPolicy]]

\* claimbinding.ConfigureNames: a name derived from the claim's identity.
ConfigureNames(rc, rgc, rg) ==
    [err |-> NoErr,
     mg |-> [rg EXCEPT !.GenerateName = rc.Namespace \o "-" \o rc.Name \o "-"]]

(***************************************************************************)
(* UserPoolClient: desired spec, observed status, provider shapes          *)
(***************************************************************************)
\* Optional scalar fields of Spec.ForProvider (*int64, *bool, *string).
SpecScalars ==
    {"AccessTokenValidity", "AllowedOAuthFlowsUserPoolClient", "ClientName",
     "DefaultRedirectURI", "EnableTokenRevocation", "GenerateSecret",
     "IDTokenValidity", "PreventUserExistenceErrors", "RefreshTokenValidity"}

\* Fields of Spec.ForProvider that are lists of *string.
SpecLists ==
    {"AllowedOAuthFlows", "AllowedOAuthScopes", "CallbackURLs",
     "ExplicitAuthFlows", "LogoutURLs", "ReadAttributes",
     "SupportedIdentityProviders", "WriteAttributes"}

\* Fields of Spec.ForProvider that point to a struct.
SpecStructs == {"AnalyticsConfiguration", "TokenValidityUnits"}

SpecFields == SpecScalars \cup SpecLists \cup SpecStructs

\* Fields of Status.AtProvider.
StatusFields ==
    {"ClientID", "ClientSecret", "CreationDate", "LastModifiedDate", "UserPoolID"}

\* The zero value of svcapitypes.UserPoolClient.
ZeroCR ==
    [Spec |-> [ForProvider |-> [f \in SpecFields |-> Nil]],
     Status |-> [AtProvider |-> [f \in StatusFields |-> Nil]]]

\* Scalar fields of svcsdk.UserPoolClientType that a user can set.
RespScalars ==
    {"AccessTokenValidity", "AllowedOAuthFlowsUserPoolClient", "ClientName",
     "DefaultRedirectURI", "EnableTokenRevocation", "IdTokenValidity",
     "PreventUserExistenceErrors", "RefreshTokenValidity"}

\* Fields of svcsdk.UserPoolClientType the provider assigns.
RespServer ==
    {"ClientId", "ClientSecret", "CreationDate", "LastModifiedDate", "UserPoolId"}

RespFields == RespScalars \cup SpecLists \cup SpecStructs \cup RespServer

\* The zero value of svcsdk.UserPoolClientType.
ZeroBody == [f \in RespFields |-> Nil]

\* The outcome of a call: a returned value, or a nil-pointer panic.
Returned(v) == [panic |-> FALSE, val |-> v]

Panic == [panic |-> TRUE, val |-> <<>>]

\* A list that holds a nil element: the loops dereference every element.
HasNilElement(l) == l # Nil /\ \E i \in 1..Len(l[1]) : l[1][i] = Nil

\* if x != nil { res.SetX(*x) }
SetValue(p) == IF p # Nil THEN Ptr(p[1]) ELSE Nil

\* Mutant: the list is created before the test for nil, so an absent list
\* comes out as an empty one.
CopyStringsHoisted(l) ==
    IF l # Nil THEN Ptr([i \in 1..Len(l[1]) |-> Ptr(l[1][i][1])]) ELSE Ptr(<<>>)

\* if x != nil { f := []*string{}; for ... { f = append(f, &elem) }; ... }
CopyStrings(l) ==
    IF l # Nil THEN Ptr([i \in 1..Len(l[1]) |-> Ptr(l[1][i][1])]) ELSE Nil

\* AnalyticsConfiguration of a create or update request.
RequestAnalytics(a) ==
    IF a # Nil
    THEN Ptr([ApplicationArn |-> SetValue(a[1].ApplicationARN),
              ApplicationId |-> SetValue(a[1].ApplicationID),
              ExternalId |-> SetValue(a[1].ExternalID),
              RoleArn |-> SetValue(a[1].RoleARN),
              UserDataShared |-> SetValue(a[1].UserDataShared)])
    ELSE Nil

\* TokenValidityUnits of a create or update request.
RequestTokenUnits(t) ==
    IF t # Nil
    THEN Ptr([AccessToken |-> SetValue(t[1].AccessToken),
              IdToken |-> SetValue(t[1].IDToken),
              RefreshToken |-> SetValue(t[1].RefreshToken)])
    ELSE Nil

GenerateCreateUserPoolClientInput(c) ==
    LET fp == c.Spec.ForProvider
    IN  IF \E f \in SpecLists : HasNilElement(fp[f])
        THEN Panic
        ELSE Returned(
          [AccessTokenValidity |-> SetValue(fp.AccessTokenValidity),
           AllowedOAuthFlows |-> CopyStrings(fp.AllowedOAuthFlows),
           AllowedOAuthFlowsUserPoolClient |->
               SetValue(fp.AllowedOAuthFlowsUserPoolClient),
           AllowedOAuthScopes |-> CopyStrings(fp.AllowedOAuthScopes),
           AnalyticsConfiguration |-> RequestAnalytics(fp.AnalyticsConfiguration),
           CallbackURLs |-> CopyStrings(fp.CallbackURLs),
           ClientName |-> SetValue(fp.ClientName),
           DefaultRedirectURI |-> SetValue(fp.DefaultRedirectURI),
           EnableTokenRevocation |-> SetValue(fp.EnableTokenRevocation),
           ExplicitAuthFlows |-> CopyStrings(fp.ExplicitAuthFlows),
           GenerateSecret |-> SetValue(fp.GenerateSecret),
           IdTokenValidity |-> SetValue(fp.IDTokenValidity),
           LogoutURLs |-> CopyStrings(fp.LogoutURLs),
           PreventUserExistenceErrors |-> SetValue(fp.PreventUserExistenceErrors),
           ReadAttributes |-> CopyStrings(fp.ReadAttributes),
           RefreshTokenValidity |-> SetValue(fp.RefreshTokenValidity),
           SupportedIdentityProviders |-> CopyStrings(fp.SupportedIdentityProviders),
           TokenValidityUnits |-> RequestTokenUnits(fp.TokenValidityUnits),
           WriteAttributes |-> CopyStrings(fp.WriteAttributes)])

GenerateUpdateUserPoolClientInput(c) ==
    LET fp == c.Spec.ForProvider
        st == c.Status.AtProvider
    IN  IF \E f \in SpecLists : HasNilElement(fp[f])
        THEN Panic
        ELSE Returned(
          [AccessTokenValidity |-> SetValue(fp.AccessTokenValidity),
           AllowedOAuthFlows |-> CopyStrings(fp.AllowedOAuthFlows),
           AllowedOAuthFlowsUserPoolClient |->
               SetValue(fp.AllowedOAuthFlowsUserPoolClient),
           AllowedOAuthScopes |-> CopyStrings(fp.AllowedOAuthScopes),
           AnalyticsConfiguration |-> RequestAnalytics(fp.AnalyticsConfiguration),
           CallbackURLs |-> CopyStrings(fp.CallbackURLs),
           ClientId |-> SetValue(st.ClientID),
           ClientName |-> SetValue(fp.ClientName),
           DefaultRedirectURI |-> SetValue(fp.DefaultRedirectURI),
           EnableTokenRevocation |-> SetValue(fp.EnableTokenRevocation),
           ExplicitAuthFlows |-> CopyStrings(fp.ExplicitAuthFlows),
           IdTokenValidity |-> SetValue(fp.IDTokenValidity),
           LogoutURLs |-> CopyStrings(fp.LogoutURLs),
           PreventUserExistenceErrors |-> SetValue(fp.PreventUserExistenceErrors),
           ReadAttributes |-> CopyStrings(fp.ReadAttributes),
           RefreshTokenValidity |-> SetValue(fp.RefreshTokenValidity),
           SupportedIdentityProviders |-> CopyStrings(fp.SupportedIdentityProviders),
           TokenValidityUnits |-> RequestTokenUnits(fp.TokenValidityUnits),
           UserPoolId |-> SetValue(st.UserPoolID),
           WriteAttributes |-> CopyStrings(fp.WriteAttributes)])

\* Mutant: without an observed client id the request is addressed by the
\* desired spec's client name.
GenerateDescribeFromSpec(c) ==
    LET fp == c.Spec.ForProvider
        st == c.Status.AtProvider
    IN  Returned([ClientId |-> IF st.ClientID # Nil THEN Ptr(st.ClientID[1])
                               ELSE SetValue(fp.ClientName),
                  UserPoolId |-> SetValue(st.UserPoolID)])

GenerateDescribeUserPoolClientInput(c) ==
    LET st == c.Status.AtProvider
    IN  Returned([ClientId |-> SetValue(st.ClientID),
                  UserPoolId |-> SetValue(st.UserPoolID)])

\* Mutant: an absent scalar is written back as a pointer to the zero value.
KeepPointerZero(p) == IF p # Nil THEN p ELSE Ptr("")

\* if x != nil { cr.F = x } else { cr.F = nil }
KeepPointer(p) == IF p # Nil THEN p ELSE Nil

\* if x != nil { cr.F = &metav1.Time{*x} } else { cr.F = nil }
WrapTime(p) == IF p # Nil THEN Ptr([Time |-> p[1]]) ELSE Nil

\* Mutant: ExternalId is not copied into the record.
ObservedAnalyticsDropsExternal(a) ==
    IF a # Nil
    THEN Ptr([ApplicationARN |-> KeepPointer(a[1].ApplicationArn),
              ApplicationID |-> KeepPointer(a[1].ApplicationId),
              ExternalID |-> Nil,
              RoleARN |-> KeepPointer(a[1].RoleArn),
              UserDataShared |-> KeepPointer(a[1].UserDataShared)])
    ELSE Nil

\* AnalyticsConfiguration of the record built from a describe response.
ObservedAnalytics(a) ==
    IF a # Nil
    THEN Ptr([ApplicationARN |-> KeepPointer(a[1].ApplicationArn),
              ApplicationID |-> KeepPointer(a[1].ApplicationId),
              ExternalID |-> KeepPointer(a[1].ExternalId),
              RoleARN |-> KeepPointer(a[1].RoleArn),
              UserDataShared |-> KeepPointer(a[1].UserDataShared)])
    ELSE Nil

\* TokenValidityUnits of the record built from a describe response.
ObservedTokenUnits(t) ==
    IF t # Nil
    THEN Ptr([AccessToken |-> KeepPointer(t[1].AccessToken),
              IDToken |-> KeepPointer(t[1].IdToken),
              RefreshToken |-> KeepPointer(t[1].RefreshToken)])
    ELSE Nil

\* GenerateUserPoolClient(resp): resp.UserPoolClient is dereferenced without
\* a test, and so is every element of every list.
GenerateUserPoolClient(r) ==
    IF r.UserPoolClient = Nil
    THEN Panic
    ELSE LET b == r.UserPoolClient[1]
         IN  IF \E f \in SpecLists : HasNilElement(b[f])
             THEN Panic
             ELSE Returned(
               [Spec |-> [ForProvider |->
                  [AccessTokenValidity |-> KeepPointer(b.AccessTokenValidity),
                   AllowedOAuthFlows |-> CopyStrings(b.AllowedOAuthFlows),
                   AllowedOAuthFlowsUserPoolClient |->
                       KeepPointer(b.AllowedOAuthFlowsUserPoolClient),
                   AllowedOAuthScopes |-> CopyStrings(b.AllowedOAuthScopes),
                   AnalyticsConfiguration |->
                       ObservedAnalytics(b.AnalyticsConfiguration),
                   CallbackURLs |-> CopyStrings(b.CallbackURLs),
                   ClientName |-> KeepPointer(b.ClientName),
                   DefaultRedirectURI |-> KeepPointer(b.DefaultRedirectURI),
                   EnableTokenRevocation |-> KeepPointer(b.EnableTokenRevocation),
                   ExplicitAuthFlows |-> CopyStrings(b.ExplicitAuthFlows),
                   GenerateSecret |-> Nil,
                   IDTokenValidity |-> KeepPointer(b.IdTokenValidity),
                   LogoutURLs |-> CopyStrings(b.LogoutURLs),
                   PreventUserExistenceErrors |->
                       KeepPointer(b.PreventUserExistenceErrors),
                   ReadAttributes |-> CopyStrings(b.ReadAttributes),
                   RefreshTokenValidity |-> KeepPointer(b.RefreshTokenValidity),
                   SupportedIdentityProviders |->
                       CopyStrings(b.SupportedIdentityProviders),
                   TokenValidityUnits |-> ObservedTokenUnits(b.TokenValidityUnits),
                   WriteAttributes |-> CopyStrings(b.WriteAttributes)]],
                Status |-> [AtProvider |->
                  [ClientID |-> KeepPointer(b.ClientId),
                   ClientSecret |-> KeepPointer(b.ClientSecret),
                   CreationDate |-> WrapTime(b.CreationDate),
                   LastModifiedDate |-> WrapTime(b.LastModifiedDate),
                   UserPoolID |-> KeepPointer(b.UserPoolId)]]])

(***************************************************************************)
(* IsNotFound: errors as the type assertion err.(awserr.Error) sees them   *)
(***************************************************************************)
NotFoundCode == "ResourceNotFoundException"

\* The nil error.
NilError == [type |-> "nil", code |-> "", message |-> "", status |-> 0]

\* The dynamic types whose method set has Code, Message and OrigErr: a value
\* of such a type passes the assertion to the interface awserr.Error.
AwsErrTypes == {"awserr.Error", "awserr.RequestFailure"}

\* Mutant: the error is also classified by the text of its message.
IsNotFoundByMessage(e) ==
    LET ok == e.type \in AwsErrTypes
    IN  ok /\ (e.code = NotFoundCode \/ e.message = "resource not found")

\* awsErr, ok := err.(awserr.Error); return ok && awsErr.Code() == "..."
IsNotFound(e) ==
    LET ok == e.type \in AwsErrTypes
    IN  ok /\ e.code = NotFoundCode

(***************************************************************************)
(* Parts of the state a specification leaves alone                         *)
(***************************************************************************)
\* The arguments of a call that has not been made yet.
Args(c, m) == [called |-> FALSE, class |-> c, claim |-> m,
               EngineVersion |-> c, err |-> NoErr]

InitBindIdle ==
    /\ cm = [kind |-> "none"]
    /\ cs = [kind |-> "none"]
    /\ store = <<>>
    /\ work = Nil
    /\ pc = "off"
    /\ err = NoErr
    /\ created = 0
    /\ runs = <<>>

InitReadIdle ==
    /\ reads = <<>>
    /\ nf = [called |-> FALSE, err |-> NilError, result |-> FALSE]

(***************************************************************************)
(* The conversions at work: a record is written, requests are built from   *)
(* it, the provider answers, the answer is converted back                  *)
(***************************************************************************)
MaxPresent == 2

ScalarVals == {"a", "b"}

\* Lists of *string: empty, one and two elements, and one with a nil element.
ListVals ==
    {<<>>, <<Ptr("a")>>, <<Ptr("a"), Ptr("b")>>, <<Ptr("a"), Nil>>}

\* svcapitypes.AnalyticsConfigurationType values.
AnalyticsVals ==
    {[ApplicationARN |-> Nil, ApplicationID |-> Nil, ExternalID |-> Nil,
      RoleARN |-> Nil, UserDataShared |-> Nil],
     [ApplicationARN |-> Ptr("arn"), ApplicationID |-> Nil, ExternalID |-> Nil,
      RoleARN |-> Nil, UserDataShared |-> Nil],
     [ApplicationARN |-> Nil, ApplicationID |-> Nil, ExternalID |-> Nil,
      RoleARN |-> Nil, UserDataShared |-> Ptr("false")],
     [ApplicationARN |-> Ptr("arn"), ApplicationID |-> Ptr("app"),
      ExternalID |-> Ptr("ext"), RoleARN |-> Ptr("role"),
      UserDataShared |-> Ptr("true")]}

\* svcapitypes.TokenValidityUnitsType values.
TokenUnitVals ==
    {[AccessToken |-> Nil, IDToken |-> Nil, RefreshToken |-> Nil],
     [AccessToken |-> Ptr("hours"), IDToken |-> Nil, RefreshToken |-> Nil],
     [AccessToken |-> Ptr("minutes"), IDToken |-> Ptr("hours"),
      RefreshToken |-> Ptr("days")]}

\* svcsdk.AnalyticsConfigurationType values.
SdkAnalyticsVals ==
    {[ApplicationArn |-> Nil, ApplicationId |-> Nil, ExternalId |-> Nil,
      RoleArn |-> Nil, UserDataShared |-> Nil],
     [ApplicationArn |-> Nil, ApplicationId |-> Nil, ExternalId |-> Ptr("ext"),
      RoleArn |-> Nil, UserDataShared |-> Nil],
     [ApplicationArn |-> Ptr("arn"), ApplicationId |-> Ptr("app"),
      ExternalId |-> Ptr("ext"), RoleArn |-> Ptr("role"),
      UserDataShared |-> Ptr("true")]}

\* svcsdk.TokenValidityUnitsType values.
SdkTokenUnitVals ==
    {[AccessToken |-> Nil, IdToken |-> Nil, RefreshToken |-> Nil],
     [AccessToken |-> Nil, IdToken |-> Ptr("hours"), RefreshToken |-> Nil],
     [AccessToken |-> Ptr("minutes"), IdToken |-> Ptr("hours"),
      RefreshToken |-> Ptr("days")]}

NoOut == [op |-> "none", panic |-> FALSE, val |-> <<>>]

Called(op, r) == [op |-> op, panic |-> r.panic, val |-> r.val]

InitConvIdle ==
    /\ cr = ZeroCR
    /\ resp = Nil
    /\ out = NoOut
    /\ rt = FALSE

\* Number of fields of the record that are present.
PresentInRecord ==
    Cardinality({f \in SpecFields : cr.Spec.ForProvider[f] # Nil})
    + Cardinality({f \in StatusFields : cr.Status.AtProvider[f] # Nil})

\* Number of fields of the response body that are present.
PresentInBody ==
    Cardinality({f \in RespFields : resp[1].UserPoolClient[1][f] # Nil})

SetSpecField(f, v) ==
    /\ cr.Spec.ForProvider[f] = Nil
    /\ cr' = [cr EXCEPT !.Spec.ForProvider[f] = v]
    /\ resp' = Nil
    /\ out' = NoOut
    /\ rt' = FALSE
    /\ UNCHANGED <<rv, nf, reads, bindVars>>

\* The user writes a field of the desired spec.
EditSpec ==
    /\ PresentInRecord < MaxPresent
    /\ \/ \E f \in SpecScalars, v \in ScalarVals : SetSpecField(f, Ptr(v))
       \/ \E f \in SpecLists, v \in ListVals : SetSpecField(f, Ptr(v))
       \/ \E v \in AnalyticsVals : SetSpecField("AnalyticsConfiguration", Ptr(v))
       \/ \E v \in TokenUnitVals : SetSpecField("TokenValidityUnits", Ptr(v))

\* The identity the provider assigned is recorded in the observed status.
RecordIdentity ==
    /\ \E f \in {"ClientID", "UserPoolID"}, v \in ScalarVals :
          /\ cr.Status.AtProvider[f] = Nil
          /\ cr' = [cr EXCEPT !.Status.AtProvider[f] = Ptr(v)]
    /\ PresentInRecord < MaxPresent
    /\ resp' = Nil
    /\ out' = NoOut
    /\ rt' = FALSE
    /\ UNCHANGED <<rv, nf, reads, bindVars>>

CallCreate ==
    /\ resp = Nil
    /\ out' = Called("create", GenerateCreateUserPoolClientInput(cr))
    /\ UNCHANGED <<rv, nf, reads, bindVars, cr, resp, rt>>

CallUpdate ==
    /\ resp = Nil
    /\ out' = Called("update", GenerateUpdateUserPoolClientInput(cr))
    /\ UNCHANGED <<rv, nf, reads, bindVars, cr, resp, rt>>

\* The describe response that carries the fields of a create request: the
\* response has no GenerateSecret, and the provider assigns the identity.
DescribeResponseFor(req, assigned) ==
    [UserPoolClient |->
       Ptr([f \in RespFields |->
              IF f \in RespServer THEN assigned[f] ELSE req[f]])]

\* What the provider assigns to a client it has created.
Assigned ==
    {[f \in RespServer |-> Nil],
     [ClientId |-> Ptr("client-1"), ClientSecret |-> Ptr("secret"),
      CreationDate |-> Ptr("t1"), LastModifiedDate |-> Ptr("t2"),
      UserPoolId |-> Ptr("pool-1")]}

\* The provider answers a describe call made after the create request.
ProviderDescribe ==
    /\ out.op = "create"
    /\ ~out.panic
    /\ resp = Nil
    /\ \E a \in Assigned : resp' = Ptr(DescribeResponseFor(out.val, a))
    /\ rt' = TRUE
    /\ UNCHANGED <<rv, nf, reads, bindVars, cr, out>>

\* The describe response is converted to a record.
CallGenerateUserPoolClient ==
    /\ resp # Nil
    /\ out.op # "observe"
    /\ out' = Called("observe", GenerateUserPoolClient(resp[1]))
    /\ UNCHANGED <<rv, nf, reads, bindVars, cr, resp, rt>>

NextConv ==
    \/ EditSpec
    \/ RecordIdentity
    \/ CallCreate
    \/ CallUpdate
    \/ ProviderDescribe
    \/ CallGenerateUserPoolClient

InitConv ==
    /\ rv = Args(Nil, EmptyString)
    /\ InitBindIdle
    /\ InitConvIdle
    /\ InitReadIdle

SpecConv == InitConv /\ [][NextConv]_vars

(***************************************************************************)
(* Any describe response, field by field                                   *)
(***************************************************************************)
SetBodyField(f, v) ==
    /\ resp[1].UserPoolClient # Nil
    /\ resp[1].UserPoolClient[1][f] = Nil
    /\ PresentInBody < MaxPresent
    /\ resp' = [resp EXCEPT ![1].UserPoolClient[1][f] = v]
    /\ out' = NoOut
    /\ UNCHANGED <<rv, nf, reads, bindVars, cr, rt>>

\* The provider's response carries one more field.
ProviderSets ==
    \/ \E f \in RespScalars \cup RespServer, v \in ScalarVals :
          SetBodyField(f, Ptr(v))
    \/ \E f \in SpecLists, v \in ListVals : SetBodyField(f, Ptr(v))
    \/ \E v \in SdkAnalyticsVals : SetBodyField("AnalyticsConfiguration", Ptr(v))
    \/ \E v \in SdkTokenUnitVals : SetBodyField("TokenValidityUnits", Ptr(v))

InitObserve ==
    /\ rv = Args(Nil, EmptyString)
    /\ InitBindIdle
    /\ cr = ZeroCR
    /\ resp \in {Ptr([UserPoolClient |-> Nil]), Ptr([UserPoolClient |-> Ptr(ZeroBody)])}
    /\ out = NoOut
    /\ rt = FALSE
    /\ InitReadIdle

NextObserve ==
    \/ ProviderSets
    \/ CallGenerateUserPoolClient

SpecObserve == InitObserve /\ [][NextObserve]_vars

(***************************************************************************)
(* Describe reads of a record whose desired spec and identity change       *)
(***************************************************************************)
\* The last two elements of a sequence.
LastTwo(q) == IF Len(q) <= 2 THEN q ELSE SubSeq(q, Len(q) - 1, Len(q))

\* The record is read: the describe request is built from it.
CallDescribe ==
    /\ out.op # "describe"
    /\ LET r == GenerateDescribeUserPoolClientInput(cr)
       IN  /\ out' = Called("describe", r)
           /\ reads' = LastTwo(Append(reads, [cr |-> cr, req |-> r.val]))
    /\ UNCHANGED <<rv, nf, bindVars, cr, resp, rt>>

InitDescribe ==
    /\ rv = Args(Nil, EmptyString)
    /\ InitBindIdle
    /\ InitConvIdle
    /\ InitReadIdle

NextDescribe ==
    \/ EditSpec
    \/ RecordIdentity
    \/ CallDescribe

SpecDescribe == InitDescribe /\ [][NextDescribe]_vars

(***************************************************************************)
(* Harness of IsNotFound: one call on every kind of error                  *)
(***************************************************************************)
ErrorCodes ==
    {NotFoundCode, "InvalidParameterException", "NotAuthorizedException", ""}

ErrorMessages == {"", NotFoundCode, "resource not found", "boom"}

StatusCodes == {400, 404}

\* nil; errors.New(m); awserr.New(c, m, nil); awserr.NewRequestFailure(...);
\* errors.Wrap(awserr.New(c, ...), m), whose dynamic type has no Code method.
Errors ==
    {NilError}
    \cup {[type |-> "errorString", code |-> "", message |-> m, status |-> 0] :
            m \in ErrorMessages}
    \cup {[type |-> "awserr.Error", code |-> c, message |-> m, status |-> 0] :
            c \in ErrorCodes, m \in ErrorMessages}
    \cup {[type |-> "awserr.RequestFailure", code |-> c, message |-> m,
           status |-> st] :
            c \in ErrorCodes, m \in ErrorMessages, st \in StatusCodes}
    \cup {[type |-> "withStack", code |-> c, message |-> m, status |-> 0] :
            c \in ErrorCodes, m \in ErrorMessages}

InitNotFound ==
    /\ rv = Args(Nil, EmptyString)
    /\ InitBindIdle
    /\ InitConvIdle
    /\ reads = <<>>
    /\ \E e \in Errors : nf = [called |-> FALSE, err |-> e, result |-> FALSE]

CallIsNotFound ==
    /\ ~nf.called
    /\ nf' = [nf EXCEPT !.called = TRUE, !.result = IsNotFound(nf.err)]
    /\ UNCHANGED <<rv, bindVars, convVars, reads>>

NextNotFound == CallIsNotFound

SpecNotFound == InitNotFound /\ [][NextNotFound]_vars

(***************************************************************************)
(* Harness of the Version Resolver: every call over short version strings  *)
(***************************************************************************)
MaxClassLen == 5

MaxClaimLen == 3

VersionChars == {"6", "2", "."}

StringsUpTo(n) == UNION {[1..k -> VersionChars] : k \in 0..n}

ClassVersions == {Nil} \cup {Ptr(s) : s \in StringsUpTo(MaxClassLen)}

ClaimVersions == StringsUpTo(MaxClaimLen)

InitResolver ==
    /\ \E c \in ClassVersions, m \in ClaimVersions : rv = Args(c, m)
    /\ InitBindIdle
    /\ InitConvIdle
    /\ InitReadIdle

CallResolve ==
    /\ ~rv.called
    /\ LET r == resolveAWSClassInstanceValues(rv.class, rv.claim)
       IN  rv' = [rv EXCEPT !.called = TRUE,
                            !.EngineVersion = r.EngineVersion,
                            !.err = r.err]
    /\ UNCHANGED <<bindVars, convVars, nf, reads>>

NextResolver == CallResolve

SpecResolver == InitResolver /\ [][NextResolver]_vars

(***************************************************************************)
(* Scheduler, Defaulter and Binder reconciling one claim                   *)
(***************************************************************************)
MaxRuns == 2

BindClaimVersions == {EmptyString, <<"6", ".", "2">>, <<"6", ".", "6">>}

BindClassVersions ==
    {Nil, Ptr(EmptyString), Ptr(<<"6", ".", "2", ".", "6">>),
     Ptr(<<"6", ".", "2", ".", "2">>), Ptr(<<"6", ".", "6", ".", "2">>)}

Claims ==
    {[kind |-> k, UID |-> ClaimUID, Namespace |-> ClaimNamespace,
      Name |-> ClaimName, ClassSelector |-> sel, ClassRef |-> cref,
      ResourceRef |-> rref, EngineVersion |-> v] :
        k \in {RedisClusterKind, OtherKind},
        sel \in BOOLEAN,
        cref \in {"", ReplicationGroupClassKind, OtherKind},
        rref \in {Nil, Ptr([kind |-> ReplicationGroupKind, idx |-> 1]),
                  Ptr([kind |-> OtherKind, idx |-> 1])},
        v \in BindClaimVersions}

Classes ==
    {[kind |-> ReplicationGroupClassKind, matches |-> m, default |-> d,
      SpecTemplate |->
        [ForProvider |-> [EngineVersion |-> v, CacheNodeType |-> "cache.t2.micro"],
         ReclaimPolicy |-> rp,
         WriteConnectionSecretsToNamespace |-> SecretNamespace]] :
        m \in BOOLEAN, d \in BOOLEAN, v \in BindClassVersions,
        rp \in {ReclaimRetain, ReclaimDelete}}

\* Specs a managed resource that already exists may start with.
StartSpecs ==
    {ZeroSpec,
     [ReclaimPolicy |-> ReclaimDelete,
      ForProvider |-> [EngineVersion |-> Ptr(<<"2", ".", "6", ".", "2">>),
                       CacheNodeType |-> "cache.m5.large"],
      WriteConnectionSecretToReference |->
         Ptr([Namespace |-> "default", Name |-> "old-secret"])]}

InitBind ==
    /\ rv = Args(Nil, EmptyString)
    /\ cm \in Claims
    /\ cs \in Classes
    /\ IF cm.ResourceRef = Nil
       THEN store = <<>>
       ELSE \E sp \in StartSpecs :
               store = <<[kind |-> cm.ResourceRef[1].kind, Spec |-> sp,
                          GenerateName |-> ""]>>
    /\ work = Nil
    /\ pc = "idle"
    /\ err = NoErr
    /\ created = 0
    /\ runs = <<>>
    /\ InitConvIdle
    /\ InitReadIdle

\* The class object the claim's class reference names.
ClassFor(claim) ==
    IF claim.ClassRef = ReplicationGroupClassKind THEN cs ELSE OtherClass

\* The managed resource the Binder's reconcile starts from.
StartManaged ==
    IF cm.ResourceRef = Nil THEN NewManaged ELSE store[cm.ResourceRef[1].idx]

\* claimscheduling.Reconciler: a matching class becomes the claim's class
\* reference; with no candidate nothing changes.
Scheduler ==
    /\ SchedulerPredicate(cm)
    /\ cs.matches
    /\ cm' = [cm EXCEPT !.ClassRef = cs.kind]
    /\ UNCHANGED <<convVars, rv, nf, reads, cs, store, work, pc, err, created, runs>>

\* claimdefaulting.Reconciler: the default class becomes the claim's class
\* reference; with no default nothing changes.
Defaulter ==
    /\ DefaulterPredicate(cm)
    /\ cs.default
    /\ cm' = [cm EXCEPT !.ClassRef = cs.kind]
    /\ UNCHANGED <<convVars, rv, nf, reads, cs, store, work, pc, err, created, runs>>

\* claimbinding.Reconciler picks up the claim: a new managed resource object
\* if the claim references none, the referenced one otherwise.
BinderStart ==
    /\ pc = "idle"
    /\ BinderPredicate(cm)
    /\ cm.ClassRef # ""
    /\ Len(runs) < MaxRuns
    /\ work' = Ptr(StartManaged)
    /\ pc' = "configure"
    /\ err' = NoErr
    /\ UNCHANGED <<convVars, rv, nf, reads, cm, cs, store, created, runs>>

\* First configurator of the chain.
ConfigureStep ==
    /\ pc = "configure"
    /\ LET r == ConfigureReplicationGroup(cm, ClassFor(cm), work[1])
           after == ConfigureLeaves(cm, ClassFor(cm), work[1])
       IN  /\ work' = Ptr(r.mg)
           /\ err' = r.err
           /\ pc' = IF r.err = NoErr THEN "reclaim" ELSE "failed"
           /\ runs' = IF r.err = NoErr THEN runs
                      ELSE Append(runs, [in |-> StartManaged, out |-> r.mg,
                                         ok |-> FALSE])
           /\ cm' = after.cm
           /\ cs' = IF cm.ClassRef = ReplicationGroupClassKind
                    THEN after.cs ELSE cs
    /\ UNCHANGED <<convVars, rv, nf, reads, store, created>>

\* Second configurator of the chain.
ReclaimPolicyStep ==
    /\ pc = "reclaim"
    /\ LET r == ConfigureReclaimPolicy(cm, ClassFor(cm), work[1])
       IN  /\ work' = Ptr(r.mg)
           /\ err' = r.err
    /\ pc' = "names"
    /\ UNCHANGED <<convVars, rv, nf, reads, cm, cs, store, created, runs>>

\* Third and last configurator of the chain.
NamesStep ==
    /\ pc = "names"
    /\ LET r == ConfigureNames(cm, ClassFor(cm), work[1])
       IN  /\ work' = Ptr(r.mg)
           /\ err' = r.err
           /\ runs' = Append(runs, [in |-> StartManaged, out |-> r.mg, ok |-> TRUE])
    /\ pc' = "persist"
    /\ UNCHANGED <<convVars, rv, nf, reads, cm, cs, store, created>>

\* The chain failed: the reconcile returns the error, nothing is written.
BinderAbort ==
    /\ pc = "failed"
    /\ pc' = "idle"
    /\ work' = Nil
    /\ UNCHANGED <<convVars, rv, nf, reads, cm, cs, store, err, created, runs>>

\* Mutant: the managed resource is created although the write that records
\* the claim's reference came back with a conflict.
PersistLeaksOnConflict ==
    /\ pc = "persist"
    /\ IF cm.ResourceRef = Nil
       THEN /\ store' = Append(store, work[1])
            /\ created' = created + 1
       ELSE /\ store' = [store EXCEPT ![cm.ResourceRef[1].idx] = work[1]]
            /\ created' = created
    /\ err' = Errorf("conflict")
    /\ pc' = "idle"
    /\ work' = Nil
    /\ UNCHANGED <<convVars, rv, nf, reads, cm, cs, runs>>

\* The persistence step succeeds: the configured object is written, and a
\* new object becomes the claim's managed-resource reference.
PersistOK ==
    /\ pc = "persist"
    /\ IF cm.ResourceRef = Nil
       THEN /\ store' = Append(store, work[1])
            /\ cm' = [cm EXCEPT !.ResourceRef =
                         Ptr([kind |-> work[1].kind, idx |-> Len(store) + 1])]
            /\ created' = created + 1
       ELSE /\ store' = [store EXCEPT ![cm.ResourceRef[1].idx] = work[1]]
            /\ cm' = cm
            /\ created' = created
    /\ err' = NoErr
    /\ pc' = "idle"
    /\ work' = Nil
    /\ UNCHANGED <<convVars, rv, nf, reads, cs, runs>>

\* The persistence step fails with the conflict outcome: nothing is written.
PersistConflict ==
    /\ pc = "persist"
    /\ err' = Errorf("conflict")
    /\ pc' = "idle"
    /\ work' = Nil
    /\ UNCHANGED <<convVars, rv, nf, reads, cm, cs, store, created, runs>>

NextBind ==
    \/ Scheduler
    \/ Defaulter
    \/ BinderStart
    \/ ConfigureStep
    \/ ReclaimPolicyStep
    \/ NamesStep
    \/ BinderAbort
    \/ PersistOK
    \/ PersistConflict

SpecBind == InitBind /\ [][NextBind]_vars

\* C1: every call of resolveAWSClassInstanceValues gives the result of the
\* four-row decision table, first match wins: both empty -> version left
\* empty and no error; class empty, claim set -> the table's latest patch for
\* the claim's minor version, or an error if the table has none; class set,
\* claim empty -> class version unchanged, no error; both set -> error if the
\* class version does not begin with claim version + ".", otherwise the class
\* version unchanged and no error.
C1_DecisionTable ==
    rv.called =>
        LET classEmpty == StringValue(rv.class) = EmptyString
            claimEmpty == rv.claim = EmptyString
        IN  IF classEmpty /\ claimEmpty
            THEN rv.err = NoErr /\ StringValue(rv.EngineVersion) = EmptyString
                 /\ rv.EngineVersion = rv.class
            ELSE IF classEmpty
            THEN IF TableLookup(rv.claim) = UnsupportedVersion
                 THEN rv.err # NoErr
                 ELSE rv.err = NoErr
                      /\ rv.EngineVersion = Ptr(LatestSupportedPatchVersion[rv.claim])
            ELSE IF claimEmpty
            THEN rv.err = NoErr /\ rv.EngineVersion = rv.class
            ELSE IF ~HasPrefix(rv.class[1], rv.claim \o <<".">>)
                 THEN rv.err # NoErr
                 ELSE rv.err = NoErr /\ rv.EngineVersion = rv.class

\* A call in the fourth row that is accepted although the class version is
\* not the table's latest patch.
C1_Witness ==
    /\ rv.called
    /\ rv.claim = <<"6", ".", "2">>
    /\ rv.class = Ptr(<<"6", ".", "2", ".", "2">>)
    /\ rv.err = NoErr
    /\ rv.EngineVersion = rv.class

\* C2 as stated: a claim version the table maps to the unsupported sentinel
\* (or does not contain) makes the resolution fail with the unsupported-version
\* error, for every class version, empty or not.
C2_AlwaysUnsupported ==
    (rv.called /\ rv.claim # EmptyString
               /\ TableLookup(rv.claim) = UnsupportedVersion)
        => (rv.err # NoErr /\ Cause(rv.err) = ErrUnsupported)

\* C2 amended: a claim version the table maps to the unsupported sentinel (or
\* does not contain) makes the resolution fail with the unsupported-version
\* error whenever the class version is empty; with a non-empty class version
\* the table is not consulted, and the call either fails with the version
\* conflict or succeeds with the class version.
C2_UnsupportedFails ==
    (rv.called /\ rv.claim # EmptyString
               /\ TableLookup(rv.claim) = UnsupportedVersion)
        => IF StringValue(rv.class) = EmptyString
           THEN rv.err # NoErr /\ Cause(rv.err) = ErrUnsupported
                /\ rv.EngineVersion = Nil
           ELSE \/ rv.err # NoErr /\ Cause(rv.err) = ErrConflict
                \/ rv.err = NoErr /\ rv.EngineVersion = rv.class

\* An unsupported claim version with no class version has been refused.
C2_Witness ==
    /\ rv.called
    /\ rv.class = Nil
    /\ rv.claim = <<"6", ".", "6">>
    /\ rv.err = <<ErrResolveClaim, ErrUnsupported>>

(***************************************************************************)
(* Properties of the configurator chain and of the controllers             *)
(***************************************************************************)
\* The configurator has returned without error and its result is in work.
Configured == pc \in {"reclaim", "names", "persist"}

WrittenVersion == work[1].Spec.ForProvider.EngineVersion

ClassVersion == cs.SpecTemplate.ForProvider.EngineVersion

\* C3 as stated: after a successful ConfigureReplicationGroup the engine
\* version of the managed resource is absent, or the table's latest patch for
\* the claim's minor version, or the class's version beginning with the
\* claim's minor version and ".".
C3_VersionStated ==
    Configured =>
        \/ StringValue(WrittenVersion) = EmptyString
        \/ /\ TableLookup(cm.EngineVersion) # UnsupportedVersion
           /\ WrittenVersion = Ptr(TableLookup(cm.EngineVersion))
        \/ /\ WrittenVersion = ClassVersion
           /\ HasPrefix(StringValue(WrittenVersion), cm.EngineVersion \o <<".">>)

\* C3 amended: after a successful ConfigureReplicationGroup the engine
\* version of the managed resource is absent, or the table's latest patch for
\* the claim's minor version, or the class's version beginning with the
\* claim's minor version and ".", or the class's version unchanged when the
\* claim requests no version.
C3_VersionInvariant ==
    Configured =>
        \/ StringValue(WrittenVersion) = EmptyString
        \/ /\ TableLookup(cm.EngineVersion) # UnsupportedVersion
           /\ WrittenVersion = Ptr(TableLookup(cm.EngineVersion))
        \/ /\ WrittenVersion = ClassVersion
           /\ HasPrefix(StringValue(WrittenVersion), cm.EngineVersion \o <<".">>)
        \/ /\ cm.EngineVersion = EmptyString
           /\ WrittenVersion = ClassVersion

\* A class-only version has been written to the managed resource.
C3_Witness ==
    /\ Configured
    /\ cm.EngineVersion = EmptyString
    /\ WrittenVersion = Ptr(<<"6", ".", "2", ".", "2">>)

\* C4: whenever ConfigureReplicationGroup returns an error the managed
\* resource is exactly what it was before the call, and the reconcile that
\* follows the error persists nothing.
C4_NoWriteOnError ==
    [][/\ (pc = "configure" /\ err' # NoErr) => (work' = work /\ store' = store)
       /\ pc = "failed" => store' = store]_vars

\* A version conflict has been returned for a managed resource that already
\* carried a spec.
C4_Witness ==
    /\ pc = "failed"
    /\ Cause(err) = ErrConflict
    /\ work = Ptr(StartManaged)
    /\ work[1].Spec # ZeroSpec

\* C5: when a run of the configurator chain starts from the managed resource
\* the previous run produced, it produces that managed resource again, with
\* the connection-secret reference named after the claim's UID in the class's
\* secret namespace.
C5_Idempotent ==
    \A i \in 1..(Len(runs) - 1) :
        runs[i + 1].in = runs[i].out =>
            /\ runs[i + 1].out = runs[i].out
            /\ runs[i + 1].ok = runs[i].ok
            /\ runs[i].ok =>
                  runs[i + 1].out.Spec.WriteConnectionSecretToReference =
                     Ptr([Namespace |-> cs.SpecTemplate.WriteConnectionSecretsToNamespace,
                          Name |-> cm.UID])

\* Two successful runs in sequence, the first of which changed an existing
\* managed resource.
C5_Witness ==
    /\ Len(runs) = 2
    /\ runs[1].ok /\ runs[2].ok
    /\ runs[1].in.Spec # ZeroSpec
    /\ runs[1].in # runs[1].out
    /\ runs[2].in = runs[1].out

\* C6: at most one of the trigger predicates of Scheduler, Defaulter and
\* Binder holds for the claim.
C6_MutuallyExclusive ==
    /\ ~(SchedulerPredicate(cm) /\ DefaulterPredicate(cm))
    /\ ~(SchedulerPredicate(cm) /\ BinderPredicate(cm))
    /\ ~(DefaulterPredicate(cm) /\ BinderPredicate(cm))

\* A claim with a class selector and only a managed-resource reference: the
\* Binder's predicate holds, the Scheduler's does not.
C6_Witness ==
    /\ HasClassSelector(cm)
    /\ HasNoClassReference(cm)
    /\ HasManagedResourceReferenceKind(cm, ReplicationGroupKind)
    /\ BinderPredicate(cm)
    /\ ~SchedulerPredicate(cm)

SdkName(f) == IF f = "IDTokenValidity" THEN "IdTokenValidity" ELSE f

\* The record's name of a field the provider assigns.
StatusName(f) ==
    IF f = "ClientId" THEN "ClientID"
    ELSE IF f = "UserPoolId" THEN "UserPoolID" ELSE f

\* Nested fields: the record's name and the provider's name.
NestedNames(f) ==
    IF f = "AnalyticsConfiguration"
    THEN {<<"ApplicationARN", "ApplicationArn">>, <<"ApplicationID", "ApplicationId">>,
          <<"ExternalID", "ExternalId">>, <<"RoleARN", "RoleArn">>,
          <<"UserDataShared", "UserDataShared">>}
    ELSE {<<"AccessToken", "AccessToken">>, <<"IDToken", "IdToken">>,
          <<"RefreshToken", "RefreshToken">>}

\* The request or response x carries field n.
Carries(x, n) == n \in DOMAIN x /\ x[n] # Nil

\* Field f of the desired spec fp and of the provider shape x agree: present
\* in both with the same value, nested fields included, or absent in both.
SameField(fp, x, f) ==
    /\ fp[f] # Nil <=> Carries(x, SdkName(f))
    /\ Carries(x, SdkName(f)) =>
          IF f \in SpecStructs
          THEN \A n \in NestedNames(f) : x[f][1][n[2]] = fp[f][1][n[1]]
          ELSE x[SdkName(f)] = fp[f]

IsRequest == out.op \in {"create", "update"} /\ ~out.panic

\* C8 as stated: a request built by GenerateCreateUserPoolClientInput or
\* GenerateUpdateUserPoolClientInput carries each optional field of the
\* desired spec exactly when the spec has it, with the same value.
C8_EveryFieldStated ==
    IsRequest => \A f \in SpecFields : SameField(cr.Spec.ForProvider, out.val, f)

\* C8 amended: a create request carries each optional field of the desired
\* spec exactly when the spec has it, with the same value; an update request
\* does so for every field but GenerateSecret, which it never carries.
C8_EveryField ==
    IsRequest =>
        IF out.op = "create"
        THEN \A f \in SpecFields : SameField(cr.Spec.ForProvider, out.val, f)
        ELSE /\ \A f \in SpecFields \ {"GenerateSecret"} :
                   SameField(cr.Spec.ForProvider, out.val, f)
             /\ "GenerateSecret" \notin DOMAIN out.val

\* An update request built from a spec with GenerateSecret and a full
\* AnalyticsConfiguration.
C8_Witness ==
    /\ out.op = "update" /\ ~out.panic
    /\ cr.Spec.ForProvider.GenerateSecret # Nil
    /\ cr.Spec.ForProvider.AnalyticsConfiguration # Nil
    /\ out.val.AnalyticsConfiguration[1].UserDataShared = Ptr("true")
    /\ out.val.CallbackURLs = Nil

IsRecord == out.op = "observe" /\ ~out.panic

Body == resp[1].UserPoolClient[1]

\* C9: the record GenerateUserPoolClient builds holds every absent response
\* field as absent and every present one with its value, ClientId,
\* ClientSecret, CreationDate, LastModifiedDate and UserPoolId in
\* Status.AtProvider and nowhere else, every other field in Spec.ForProvider
\* and nowhere else.
C9_Buckets ==
    IsRecord =>
        LET fp == out.val.Spec.ForProvider
            st == out.val.Status.AtProvider
        IN  /\ DOMAIN fp = SpecFields
            /\ DOMAIN st = StatusFields
            /\ \A f \in SpecFields \ {"GenerateSecret"} : SameField(fp, Body, f)
            /\ fp.GenerateSecret = Nil
            /\ \A f \in {"ClientId", "ClientSecret", "UserPoolId"} :
                  st[StatusName(f)] = Body[f]
            /\ \A f \in {"CreationDate", "LastModifiedDate"} :
                  st[f] = IF Body[f] = Nil THEN Nil ELSE Ptr([Time |-> Body[f][1]])

\* A response with a creation date and an empty list of callback URLs has
\* been converted.
C9_Witness ==
    /\ IsRecord
    /\ Body.CreationDate = Ptr("a")
    /\ Body.CallbackURLs = Ptr(<<>>)
    /\ out.val.Status.AtProvider.CreationDate = Ptr([Time |-> "a"])
    /\ out.val.Spec.ForProvider.CallbackURLs = Ptr(<<>>)
    /\ out.val.Spec.ForProvider.ClientName = Nil

\* C10 as stated: converting the describe response that carries the fields
\* of the create request gives back every field of the desired spec, present
\* fields with their value and absent fields absent.
C10_RoundTripStated ==
    (IsRecord /\ rt) =>
        \A f \in SpecFields : out.val.Spec.ForProvider[f] = cr.Spec.ForProvider[f]

\* C10 amended: converting the describe response that carries the fields of
\* the create request gives back every field of the desired spec but
\* GenerateSecret, present fields with their value and absent fields absent;
\* GenerateSecret, which no describe response carries, comes back absent.
C10_RoundTrip ==
    (IsRecord /\ rt) =>
        /\ \A f \in SpecFields \ {"GenerateSecret"} :
              out.val.Spec.ForProvider[f] = cr.Spec.ForProvider[f]
        /\ out.val.Spec.ForProvider.GenerateSecret = Nil

\* A spec with a full AnalyticsConfiguration and an empty list has made the
\* round trip.
C10_Witness ==
    /\ IsRecord /\ rt
    /\ cr.Spec.ForProvider.AnalyticsConfiguration # Nil
    /\ cr.Spec.ForProvider.AnalyticsConfiguration[1].ExternalID = Ptr("ext")
    /\ cr.Spec.ForProvider.CallbackURLs = Ptr(<<>>)
    /\ out.val.Spec.ForProvider = cr.Spec.ForProvider
    /\ out.val.Status.AtProvider.ClientID = Ptr("client-1")

\* C11: IsNotFound(err) is true exactly when err is a provider error (its
\* dynamic type implements awserr.Error) whose code is
\* "ResourceNotFoundException"; it is false for a provider error with another
\* code, for an error that is not a provider error, and for no error; and
\* replacing the message text by any other never changes the result.
C11_ByCodeOnly ==
    nf.called =>
      /\ nf.result = (/\ nf.err.type \in {"awserr.Error", "awserr.RequestFailure"}
                      /\ nf.err.code = "ResourceNotFoundException")
      /\ nf.err.type \in {"nil", "errorString", "withStack"} => ~nf.result
      /\ \A m \in ErrorMessages :
            IsNotFound([nf.err EXCEPT !.message = m]) = nf.result

\* A provider error with another code whose message is the not-found code
\* itself has been classified, and the answer was false.
C11_Witness ==
    /\ nf.called
    /\ nf.err.type = "awserr.Error"
    /\ nf.err.code = "InvalidParameterException"
    /\ nf.err.message = NotFoundCode
    /\ ~nf.result

\* The observed identity of a record: Status.AtProvider.ClientID and
\* Status.AtProvider.UserPoolID.
Identity(c) ==
    [ClientID |-> c.Status.AtProvider.ClientID,
     UserPoolID |-> c.Status.AtProvider.UserPoolID]

\* C12: the describe request depends only on the observed identity: any two
\* reads of records with the same Status.AtProvider.ClientID and UserPoolID
\* built the same request, whatever the desired specs were, and every request
\* is the one built from the record with that identity and nothing else set.
C12_IdentityOnly ==
    /\ \A i \in DOMAIN reads, j \in DOMAIN reads :
          Identity(reads[i].cr) = Identity(reads[j].cr)
             => reads[i].req = reads[j].req
    /\ \A i \in DOMAIN reads :
          reads[i].req =
             [ClientId |-> Identity(reads[i].cr).ClientID,
              UserPoolId |-> Identity(reads[i].cr).UserPoolID]

\* The record was read twice with the same identity, of which the client id
\* was not yet observed, and the desired spec's client name was written
\* between the two reads.
C12_Witness ==
    /\ Len(reads) = 2
    /\ Identity(reads[1].cr) = Identity(reads[2].cr)
    /\ Identity(reads[1].cr).ClientID = Nil
    /\ Identity(reads[1].cr).UserPoolID # Nil
    /\ reads[1].cr.Spec.ForProvider.ClientName = Nil
    /\ reads[2].cr.Spec.ForProvider.ClientName # Nil

\* The chain has configured the managed resource at least up to and
\* including ConfigureReplicationGroup.
AfterResourceConfigurator == pc \in {"reclaim", "names", "persist"}

\* C13 as stated: immediately after ConfigureReplicationGroup succeeds, and
\* before the reclaim-policy configurator runs, the managed resource's reclaim
\* policy is the interim value Retain, whatever the class template declares.
C13_InterimRetainStated ==
    pc = "reclaim" => work[1].Spec.ReclaimPolicy = ReclaimRetain

\* C13: the configurator chain runs in the order resource configurator,
\* reclaim-policy configurator, naming configurator; the interim Retain does
\* not outlive ConfigureReplicationGroup: from the moment it succeeds, and
\* after each of the two later configurators, the managed resource's reclaim
\* policy is the class template's declared reclaim policy.
C13_ReclaimPolicyOrder ==
    /\ [](AfterResourceConfigurator =>
            work[1].Spec.ReclaimPolicy = cs.SpecTemplate.ReclaimPolicy)
    /\ [][/\ pc' = "reclaim" => pc = "configure" /\ err' = NoErr
          /\ pc' = "names" => pc = "reclaim"
          /\ pc' = "persist" => pc = "names"
          /\ pc = "configure" => pc' \in {"reclaim", "failed"}
          /\ pc = "reclaim" => pc' = "names"
          /\ pc = "names" => pc' = "persist"]_pc

\* ConfigureReplicationGroup has just succeeded against a class template that
\* declares Delete, the reclaim-policy configurator has not run yet, and the
\* managed resource already carries Delete.
C13_Witness ==
    /\ pc = "reclaim"
    /\ cs.SpecTemplate.ReclaimPolicy = ReclaimDelete
    /\ work[1].Spec.ReclaimPolicy = ReclaimDelete

C15_TotalStated ==
    out.op = "observe" => ~out.panic
====
